---- MODULE Spec2Model ----
(***************************************************************************)
(* Cat GPS: the MQTT -> asyncio queue -> websocket fan-out pipeline of     *)
(* main.py and the time-series sink of tsdb.py.                            *)
(*                                                                         *)
(* Two threads exist: the paho network thread, which runs on_mqtt_message, *)
(* and the asyncio event loop, which runs lifespan, broadcast_positions,   *)
(* every ws_positions handler and the callbacks handed over with           *)
(* call_soon_threadsafe.  An action of the event loop is the code between  *)
(* two awaits.                                                             *)
(***************************************************************************)
EXTENDS Integers, Sequences, FiniteSets, TLC

VARIABLES
    phase,           \* lifespan: "init", "running", "awaiting", "done"
    mqtt_loop,       \* main.mqtt_loop: "None" or "loop"
    mqtt_state,      \* the paho client: "none", "started", "stopped"
    ready,           \* callbacks scheduled with call_soon_threadsafe, oldest first
    position_queue,  \* main.position_queue, oldest first
    ws_clients,      \* main.ws_clients
    ws_state,        \* per websocket: "new", "open", "closed"
    broadcaster,     \* the broadcast_positions task: pc, data, todo, dead_clients
    mqtt_last,       \* the last call of on_mqtt_message and how it ended
    scheduled,       \* history: every record handed to call_soon_threadsafe, in order
    sent,            \* history: per websocket, the send_json calls and their outcome
    joined,          \* history: per websocket, Len(dequeued) when it was added
    dequeued,        \* history: every record position_queue.get() returned, in order
    tsdb,            \* the TimeSeriesDB object of tsdb.py and its backing store
    snapshot,        \* history: the members of ws_clients when the pass under way began
    http             \* the last answer of the heatmap endpoint

vars == <<phase, mqtt_loop, mqtt_state, ready, position_queue, ws_clients,
          ws_state, broadcaster, mqtt_last, scheduled, sent, joined, dequeued,
          tsdb, snapshot, http>>

(***************************************************************************)
(* Bounds                                                                  *)
(***************************************************************************)
\* bus messages delivered to on_mqtt_message in one run
MaxMsgs == 2
\* websocket connections in one run
NumViewers == 2

\* the websockets, numbered in the order they are accepted
Viewers == 1..NumViewers

(***************************************************************************)
(* Topics.  A topic is a sequence of symbols, "/" being the separator.     *)
(***************************************************************************)
Slash == "/"

RECURSIVE Join(_)
Join(segs) ==
    IF Len(segs) = 0 THEN <<>>
    ELSE IF Len(segs) = 1 THEN segs[1]
    ELSE segs[1] \o <<Slash>> \o Join(Tail(segs))

\* str.split("/"): one part more than there are separators, empty parts kept
RECURSIVE SplitFrom(_, _, _)
SplitFrom(s, i, cur) ==
    IF i > Len(s) THEN <<cur>>
    ELSE IF s[i] = Slash THEN <<cur>> \o SplitFrom(s, i + 1, <<>>)
    ELSE SplitFrom(s, i + 1, Append(cur, s[i]))

Split(s) == SplitFrom(s, 1, <<>>)

\* config.devices as the dict device_by_id: id -> name
Cat1 == <<"cat1">>
Cat2 == <<"cat2">>
Dog9 == <<"dog9">>

device_by_id == (Cat1 :> "Mittens") @@ (Cat2 :> "Tom")

\* the bus subscription is espresense/companion/+/attributes; shorter and
\* longer topics, and ones with the device elsewhere, reach the callback in tests
Seg(name) == <<name>>

Topics ==
    { Join(<<Seg("espresense"), Seg("companion")>>),
      Join(<<Seg("espresense"), Cat1, Seg("attributes")>>),
      Join(<<Seg("espresense"), Seg("companion"), Cat1>>),
      Join(<<Seg("espresense"), Seg("companion"), Dog9>>),
      Join(<<Seg("espresense"), Seg("companion"), Cat1, Seg("attributes"), Seg("extra")>>),
      Join(<<Seg("espresense"), Seg("companion"), Dog9, Seg("attributes"), Seg("extra")>>) }
    \cup { Join(<<Seg("espresense"), Seg("companion"), d, Seg("attributes")>>) :
             d \in {Cat1, Cat2, Dog9, <<>>} }

(***************************************************************************)
(* Payloads.  The bytes of a message are either not UTF-8, or UTF-8 that   *)
(* is not JSON, or the text of a JSON value.                               *)
(***************************************************************************)
Field(t, n) == [t |-> t, n |-> n]
Absent == Field("absent", 0)

\* the values a member of a JSON object takes here
Scalars == { Field("null", 0), Field("num", 0), Field("num", 2), Field("str", 0) }

JObject(x, y) == [t |-> "dict", n |-> 0, x |-> x, y |-> y]
JOther(t, n) == [t |-> t, n |-> n, x |-> Absent, y |-> Absent]

\* y takes the same values but for the string
JsonValues ==
    { JObject(x, y) : x \in Scalars \cup {Absent},
                      y \in (Scalars \ {Field("str", 0)}) \cup {Absent} }
    \cup { JOther("null", 0), JOther("num", 2), JOther("str", 0), JOther("list", 0) }

Payloads ==
    { [form |-> "badutf8", value |-> JOther("null", 0)],
      [form |-> "badjson", value |-> JOther("null", 0)] }
    \cup { [form |-> "json", value |-> v] : v \in JsonValues }

PyNone == Field("null", 0)

\* json.loads(msg.payload.decode("utf-8")): the value, or the exception raised
JsonLoads(payload) ==
    IF payload.form = "badutf8" THEN [exc |-> "UnicodeDecodeError", value |-> JOther("null", 0)]
    ELSE IF payload.form = "badjson" THEN [exc |-> "ValueError", value |-> JOther("null", 0)]
    ELSE [exc |-> "none", value |-> payload.value]

\* only a dict has the method get
HasGet(v) == v.t = "dict"

\* a lookup that also turns the number 0 into None (a test for truth, not for None)
DictGetFalsy(v, key) ==
    LET f == IF key = "x" THEN v.x ELSE v.y
    IN  IF f = Absent \/ f = Field("num", 0) THEN PyNone ELSE f

\* dict.get(key): the member, None when it is missing
DictGet(v, key) ==
    LET f == IF key = "x" THEN v.x ELSE v.y
    IN  IF f = Absent THEN PyNone ELSE f

NoData == [device_id |-> <<>>, device_name |-> "", x |-> PyNone, y |-> PyNone]

\* if x is None or y is None
MissingXY(x, y) == x = PyNone \/ y = PyNone

\* a length test that lets topics of 3 segments through
TopicTooShort3(parts) == Len(parts) < 3

\* if len(parts) < 4
TopicTooShort(parts) == Len(parts) < 4

\* a lookup that falls back to a default Device for an id that is not a key
DeviceGetDefault(device_id) ==
    [found |-> TRUE,
     name |-> IF device_id \in DOMAIN device_by_id THEN device_by_id[device_id]
              ELSE "unknown"]

\* device_by_id.get(device_id): the Device, None when the id is not a key
DeviceGet(device_id) ==
    IF device_id \in DOMAIN device_by_id
    THEN [found |-> TRUE, name |-> device_by_id[device_id]]
    ELSE [found |-> FALSE, name |-> ""]

\* on_mqtt_message up to its last statement: how the call ends, and the record
\* it builds.  end is "return" (nothing built), "raise" (payload.get on a value
\* that is no dict: AttributeError, which the try does not cover) or "data".
Decode(topic, payload) ==
    LET loaded == JsonLoads(payload)
        parts  == Split(topic)
    IN  IF loaded.exc # "none" THEN [end |-> "return", data |-> NoData]
        ELSE IF ~HasGet(loaded.value) THEN [end |-> "raise", data |-> NoData]
        ELSE IF MissingXY(DictGet(loaded.value, "x"), DictGet(loaded.value, "y"))
             THEN [end |-> "return", data |-> NoData]
        ELSE IF TopicTooShort(parts) THEN [end |-> "return", data |-> NoData]
        ELSE IF ~DeviceGet(parts[3]).found THEN [end |-> "return", data |-> NoData]
        ELSE [end |-> "data",
              data |-> [device_id |-> parts[3],
                        device_name |-> DeviceGet(parts[3]).name,
                        x |-> DictGet(loaded.value, "x"),
                        y |-> DictGet(loaded.value, "y")]]

(***************************************************************************)
(* Initial state: the module globals of main.py before lifespan starts.    *)
(***************************************************************************)
Idle(data) == [pc |-> "get", data |-> data, todo |-> <<>>, dead_clients |-> <<>>]

\* no TimeSeriesDB object made yet.  store: the rows of cat_position in the
\* backend; call, result, rows: the last method called, how it ended ("return",
\* "raise", "hang") and the list it returned
\* writes counts the calls of write_position; args are the arguments of the
\* last call when it was query_heatmap
NoTime == -1
NoDevice == <<>>

NoArgs == [hours |-> 0, cell_size |-> 0, device_id |-> NoDevice,
           start_time |-> NoTime, end_time |-> NoTime]

\* env and port: the environment create_tsdb_from_env read and the port it
\* gave the client
NoEnv == [TSDB_TYPE |-> "unset", TSDB_HOST |-> "unset", TSDB_PORT |-> "unset",
          TSDB_DATABASE |-> "unset"]

NoTsdb == [kind |-> "none", closed |-> FALSE, store |-> <<>>, writes |-> 0,
           call |-> "none", result |-> "none", rows |-> <<>>, args |-> NoArgs,
           env |-> NoEnv, port |-> 0]

\* the heatmap endpoint has not answered: no request, or no answer to it yet
NoQuery == [hours |-> 0, cell_size |-> 0, device_id |-> <<>>]

NoResponse == [status |-> 0, bins |-> <<>>, cell_size |-> 0, query |-> NoQuery]

Init ==
    /\ phase = "init"
    /\ mqtt_loop = "None"
    /\ mqtt_state = "none"
    /\ ready = <<>>
    /\ position_queue = <<>>
    /\ ws_clients = {}
    /\ ws_state = [v \in Viewers |-> "new"]
    /\ broadcaster = [pc |-> "none", data |-> NoData, todo |-> <<>>, dead_clients |-> <<>>]
    /\ mqtt_last = [n |-> 0, topic |-> <<>>, payload |-> [form |-> "json", value |-> JOther("null", 0)],
                    end |-> "none"]
    /\ scheduled = <<>>
    /\ sent = [v \in Viewers |-> <<>>]
    /\ joined = [v \in Viewers |-> 0]
    /\ dequeued = <<>>
    /\ tsdb = NoTsdb
    /\ snapshot = {}
    /\ http = NoResponse

(***************************************************************************)
(* lifespan, first half (up to the yield): no await, one step.             *)
(***************************************************************************)
lifespan_startup ==
    /\ phase = "init"
    /\ phase' = "running"
    /\ mqtt_loop' = "loop"
    /\ mqtt_state' = "started"
    /\ broadcaster' = Idle(NoData)
    /\ UNCHANGED <<ready, position_queue, ws_clients, ws_state, mqtt_last, scheduled,
                   sent, joined, dequeued, tsdb, snapshot, http>>

(***************************************************************************)
(* on_mqtt_message, on the paho thread                                     *)
(***************************************************************************)
\* call_soon_threadsafe(position_queue.put_nowait, data): appends to the loop's
\* ready list; nothing when mqtt_loop is None
CallSoon(rdy, data) == IF mqtt_loop = "None" THEN rdy ELSE Append(rdy, data)

\* a handler that puts the record on the queue itself, from the paho thread
HandoffDirect(rdy, queue, data) == [ready |-> rdy, queue |-> Append(queue, data)]

\* line 56: the record goes to the event loop's ready list and the handler
\* returns; the queue is left to the loop
Handoff(rdy, queue, data) == [ready |-> CallSoon(rdy, data), queue |-> queue]

on_mqtt_message(topic, payload) ==
    LET r == Decode(topic, payload)
    IN  /\ mqtt_state = "started"
        /\ mqtt_last.n < MaxMsgs
        /\ mqtt_last' = [n |-> mqtt_last.n + 1, topic |-> topic, payload |-> payload,
                         end |-> IF r.end = "raise" THEN "raise" ELSE "return"]
        /\ ready' = IF r.end = "data" THEN Handoff(ready, position_queue, r.data).ready
                    ELSE ready
        /\ position_queue' = IF r.end = "data"
                             THEN Handoff(ready, position_queue, r.data).queue
                             ELSE position_queue
        /\ scheduled' = IF r.end = "data" /\ mqtt_loop # "None"
                        THEN Append(scheduled, r.data) ELSE scheduled
        /\ UNCHANGED <<phase, mqtt_loop, mqtt_state, ws_clients, ws_state,
                       broadcaster, sent, joined, dequeued, tsdb, snapshot, http>>

\* a put that adds at the head of the queue (a LIFO queue)
PutNowaitFront(queue, data) == <<data>> \o queue

\* the event loop runs the oldest scheduled callback: position_queue.put_nowait(data)
PutNowait(queue, data) == Append(queue, data)

loop_run_callback ==
    /\ ready # <<>>
    /\ position_queue' = PutNowait(position_queue, Head(ready))
    /\ ready' = Tail(ready)
    /\ UNCHANGED <<phase, mqtt_loop, mqtt_state, ws_clients, ws_state, broadcaster,
                   mqtt_last, scheduled, sent, joined, dequeued, tsdb, snapshot, http>>

(***************************************************************************)
(* broadcast_positions.  The task is suspended either in                   *)
(* position_queue.get() (pc "get") or in ws.send_json of the first         *)
(* websocket of todo (pc "send"); a step runs from one suspension to the   *)
(* next.  get() on a non-empty queue returns without suspending.           *)
(***************************************************************************)
Range(f) == { f[i] : i \in DOMAIN f }

\* list(ws_clients): the members once each, in an order the set decides
Orders(S) == { o \in [1..Cardinality(S) -> S] : Range(o) = S }

\* a loop that takes nothing off the queue while no websocket is connected
PassesWhenViewed(clients, queue) ==
    IF queue = <<>> \/ clients = {}
    THEN { [b |-> Idle(NoData), q |-> queue, d |-> <<>>] }
    ELSE { [b |-> [pc |-> "send", data |-> Head(queue), todo |-> o, dead_clients |-> <<>>],
            q |-> Tail(queue), d |-> <<Head(queue)>>] : o \in Orders(clients) }

\* From the top of the while loop with these clients and this queue: the
\* points where the task suspends next, with what it took off the queue.
\* With no client a pass has no await, so the whole queue is consumed.
Passes(clients, queue) ==
    IF queue = <<>> THEN { [b |-> Idle(NoData), q |-> queue, d |-> <<>>] }
    ELSE IF clients = {} THEN { [b |-> Idle(NoData), q |-> <<>>, d |-> queue] }
    ELSE { [b |-> [pc |-> "send", data |-> Head(queue), todo |-> o, dead_clients |-> <<>>],
            q |-> Tail(queue), d |-> <<Head(queue)>>] : o \in Orders(clients) }

\* a pass that forgets to remove the dead websockets
DiscardNone(clients, dead) == clients

\* for ws in dead_clients: ws_clients.discard(ws)
DiscardAll(clients, dead) == clients \ Range(dead)

\* the websockets list(ws_clients) held when the pass under way began
Snapshot(b, clients) == IF b.pc = "send" THEN clients ELSE {}

\* the task wakes in position_queue.get()
broadcast_get ==
    /\ phase = "running"
    /\ broadcaster.pc = "get"
    /\ position_queue # <<>>
    /\ \E p \in Passes(ws_clients, position_queue) :
          /\ broadcaster' = p.b
          /\ position_queue' = p.q
          /\ dequeued' = dequeued \o p.d
          /\ snapshot' = Snapshot(p.b, ws_clients)
    /\ UNCHANGED <<phase, mqtt_loop, mqtt_state, ready, ws_clients, ws_state, mqtt_last,
                   scheduled, sent, joined, tsdb, http>>

\* a for loop that a failed send leaves (the try around the loop, not in it)
RemainingAbort(todo, ok) == IF ok THEN Tail(todo) ELSE <<>>

\* the try and except are inside the for loop: after a send, failed or not,
\* the websockets left are the ones after it
Remaining(todo, ok) == Tail(todo)

\* an except clause that swallows the failure and marks nothing
DeadAfterPass(dead, ws, ok) == dead

\* except Exception: dead_clients.append(ws)
DeadAfter(dead, ws, ok) == IF ok THEN dead ELSE Append(dead, ws)

\* ws.send_json(data) returns (ok) or raises an Exception; the loop goes on to
\* the next websocket, or ends the pass and starts the next one
broadcast_send(ok) ==
    /\ phase = "running"
    /\ broadcaster.pc = "send"
    /\ LET ws   == Head(broadcaster.todo)
           dead == DeadAfter(broadcaster.dead_clients, ws, ok)
           rest == Remaining(broadcaster.todo, ok)
       IN  /\ sent' = [sent EXCEPT ![ws] =
                          Append(@, [data |-> broadcaster.data,
                                     res |-> IF ok THEN "ok" ELSE "exc"])]
           /\ IF rest # <<>>
              THEN /\ broadcaster' = [broadcaster EXCEPT !.todo = rest, !.dead_clients = dead]
                   /\ UNCHANGED <<ws_clients, position_queue, dequeued, snapshot>>
              ELSE /\ ws_clients' = DiscardAll(ws_clients, dead)
                   /\ \E p \in Passes(ws_clients', position_queue) :
                         /\ broadcaster' = p.b
                         /\ position_queue' = p.q
                         /\ dequeued' = dequeued \o p.d
                         /\ snapshot' = Snapshot(p.b, ws_clients')
    /\ UNCHANGED <<phase, mqtt_loop, mqtt_state, ready, ws_state, mqtt_last, scheduled,
                   joined, tsdb, http>>

\* CancelledError is thrown into the task at its await; it is no Exception, so
\* the except clause of the send does not catch it and the task ends.
broadcast_cancelled ==
    /\ phase = "awaiting"
    /\ broadcaster.pc \in {"get", "send"}
    /\ sent' = IF broadcaster.pc = "send"
               THEN [sent EXCEPT ![Head(broadcaster.todo)] =
                        Append(@, [data |-> broadcaster.data,
                                   res |-> "cancelled"])]
               ELSE sent
    /\ broadcaster' = [broadcaster EXCEPT !.pc = "done"]
    /\ snapshot' = {}
    /\ UNCHANGED <<phase, mqtt_loop, mqtt_state, ready, position_queue, ws_clients,
                   ws_state, mqtt_last, scheduled, joined, dequeued, tsdb, http>>

\* broadcast_positions stores nothing per device and no module global holds a
\* cache: the mapping device_id -> latest record the service keeps is empty
LastPositionCache == [d \in {} |-> NoData]

(***************************************************************************)
(* lifespan, second half (after the yield)                                 *)
(***************************************************************************)
\* broadcaster_task.cancel(), then the await of the task suspends lifespan
lifespan_cancel ==
    /\ phase = "running"
    /\ phase' = "awaiting"
    /\ UNCHANGED <<mqtt_loop, mqtt_state, ready, position_queue, ws_clients, ws_state,
                   broadcaster, mqtt_last, scheduled, sent, joined, dequeued, tsdb, snapshot, http>>

\* the await returned: the task is done.  mqtt.loop_stop(); mqtt.disconnect()
lifespan_stop_mqtt ==
    /\ phase = "awaiting"
    /\ broadcaster.pc = "done"
    /\ mqtt_state' = "stopped"
    /\ phase' = "done"
    /\ UNCHANGED <<mqtt_loop, ready, position_queue, ws_clients, ws_state, broadcaster,
                   mqtt_last, scheduled, sent, joined, dequeued, tsdb, snapshot, http>>

(***************************************************************************)
(* ws_positions, one handler per websocket connection                      *)
(***************************************************************************)
\* A connection arrived after startup and the handler suspended in
\* ws.accept(), which changes nothing.  accept returned: ws_clients.add(ws),
\* then the handler suspends in receive_text.  accept raised: the handler ends
\* before the try.  Websockets are numbered in the order their accept ends.
\* a loop over ws_clients itself: a websocket added during the pass is visited
TodoAfterAddLive(b, ws) ==
    IF b.pc = "send" THEN [b EXCEPT !.todo = Append(@, ws)] ELSE b

\* the pass iterates list(ws_clients), a copy: adding to the set during a
\* pass leaves the websockets still to visit as they were
TodoAfterAdd(b, ws) == b

ws_accept(ws, ok) ==
    /\ phase # "init"
    /\ ws_state[ws] = "new"
    /\ \A earlier \in Viewers : earlier < ws => ws_state[earlier] # "new"
    /\ ws_state' = [ws_state EXCEPT ![ws] = IF ok THEN "open" ELSE "closed"]
    /\ ws_clients' = IF ok THEN ws_clients \cup {ws} ELSE ws_clients
    /\ joined' = IF ok THEN [joined EXCEPT ![ws] = Len(dequeued)] ELSE joined
    /\ broadcaster' = IF ok THEN TodoAfterAdd(broadcaster, ws) ELSE broadcaster
    /\ UNCHANGED <<phase, mqtt_loop, mqtt_state, ready, position_queue,
                   mqtt_last, scheduled, sent, dequeued, tsdb, snapshot, http>>

\* receive_text raised (WebSocketDisconnect or any other exception): break,
\* and the finally clause discards the websocket
\* a removal that is not idempotent: it puts back a websocket that is absent
WsDiscardToggle(clients, ws) ==
    IF ws \in clients THEN clients \ {ws} ELSE clients \cup {ws}

\* ws_clients.discard(ws): nothing happens, and nothing is raised, when ws is
\* not a member
WsDiscard(clients, ws) == clients \ {ws}

ws_closed(ws) ==
    /\ ws_state[ws] = "open"
    /\ ws_state' = [ws_state EXCEPT ![ws] = "closed"]
    /\ ws_clients' = WsDiscard(ws_clients, ws)
    /\ UNCHANGED <<phase, mqtt_loop, mqtt_state, ready, position_queue, broadcaster,
                   mqtt_last, scheduled, sent, joined, dequeued, tsdb, snapshot, http>>

(***************************************************************************)
(* The running service                                                     *)
(***************************************************************************)
Payload(x, y) == [form |-> "json", value |-> JObject(x, y)]

AttrTopic(dev) ==
    Join(<<Seg("espresense"), Seg("companion"), dev, Seg("attributes")>>)

\* the messages the bus carries in the runs of the whole service
BusMsgs ==
    { <<AttrTopic(Cat1), Payload(Field("num", 0), Field("num", 2))>>,
      <<AttrTopic(Cat2), Payload(Field("num", 2), Field("num", 0))>>,
      <<AttrTopic(Cat2), Payload(Field("null", 0), Field("num", 2))>> }

Next ==
    \/ lifespan_startup
    \/ \E m \in BusMsgs : on_mqtt_message(m[1], m[2])
    \/ loop_run_callback
    \/ broadcast_get
    \/ \E ok \in BOOLEAN : broadcast_send(ok)
    \/ broadcast_cancelled
    \/ lifespan_cancel
    \/ lifespan_stop_mqtt
    \/ \E ws \in Viewers, ok \in BOOLEAN : ws_accept(ws, ok)
    \/ \E ws \in Viewers : ws_closed(ws)

Spec == Init /\ [][Next]_vars

(***************************************************************************)
(* The service while it runs: no shutdown.  The event loop runs every       *)
(* callback that is ready and resumes the fan-out task when its get() can   *)
(* return; every send_json returns or raises.                               *)
(***************************************************************************)
\* liveness concerns positions in the queue, not contents: one message, cat1's
LiveMsgs == { m \in BusMsgs : m[1] = AttrTopic(Cat1) }

NextLive ==
    \/ lifespan_startup
    \/ \E m \in LiveMsgs : on_mqtt_message(m[1], m[2])
    \/ loop_run_callback
    \/ broadcast_get
    \/ \E ok \in BOOLEAN : broadcast_send(ok)
    \/ \E ws \in Viewers, ok \in BOOLEAN : ws_accept(ws, ok)
    \/ \E ws \in Viewers : ws_closed(ws)

SpecLive ==
    /\ Init
    /\ [][NextLive]_vars
    /\ WF_vars(loop_run_callback)
    /\ WF_vars(broadcast_get)
    /\ WF_vars(\E ok \in BOOLEAN : broadcast_send(ok))

(***************************************************************************)
(* The decoder alone: every topic and payload, delivered by the bus to a   *)
(* started service with no viewer.                                         *)
(***************************************************************************)
NextDecode ==
    \/ lifespan_startup
    \/ \E topic \in Topics, payload \in Payloads : on_mqtt_message(topic, payload)
    \/ loop_run_callback

SpecDecode == Init /\ [][NextDecode]_vars

(***************************************************************************)
(* tsdb.py.  Coordinates and cell sizes are in tenths, times in hours.     *)
(***************************************************************************)
\* the calls of write_position in one run
MaxStore == 2
\* the backend's clock, in hours, when a query runs
Now == 30

Point(device_id, x, y, timestamp) ==
    [device_id |-> device_id, device_name |-> device_by_id[device_id], x |-> x, y |-> y,
     timestamp |-> timestamp]

\* cat1 at (-0.3, 3.1) 28 hours ago and at (2.6, 3.1) 10 hours ago, cat2 at
\* (2.6, 3.1) and (2.9, 3.4) 10 hours ago
Points ==
    { Point(Cat1, -3, 31, 2), Point(Cat1, 26, 31, 20), Point(Cat2, 26, 31, 20),
      Point(Cat2, 29, 34, 20) }

\* the environment create_tsdb_from_env reads; "unset" stands for a missing name
Envs ==
    [TSDB_TYPE : {"unset", "", "influx", "INFLUX", "Influx", "sqlite"},
     TSDB_HOST : {"unset", "", "db"},
     TSDB_PORT : {"unset", "9000", "abc"},
     TSDB_DATABASE : {"unset", "cats"}]

\* str.lower() on the values of TSDB_TYPE above
Lower(s) == IF s \in {"INFLUX", "Influx"} THEN "influx" ELSE s

\* os.getenv(name, default)
GetEnv(env_value, default) == IF env_value = "unset" THEN default ELSE env_value

\* int(s) on the values of TSDB_PORT above and on the default
IntOf(s) ==
    IF s = "9000" THEN [exc |-> "none", value |-> 9000]
    ELSE IF s = "8181" THEN [exc |-> "none", value |-> 8181]
    ELSE [exc |-> "ValueError", value |-> 0]

DefaultPort == "8181"

\* a port lookup with no default: a missing TSDB_PORT is an error
PortOfRequired(env) == IntOf(env.TSDB_PORT)

\* int(os.environ.get("TSDB_PORT", "8181"))
PortOf(env) == IntOf(GetEnv(env.TSDB_PORT, DefaultPort))

\* create_tsdb_from_env: the class it instantiates, or the exception it
\* raises; host, port and database are read in this order
CreateKind(env) ==
    IF Lower(GetEnv(env.TSDB_TYPE, "")) = "influx"
    THEN IF env.TSDB_HOST = "unset" THEN "KeyError"
         ELSE IF PortOf(env).exc # "none" THEN PortOf(env).exc
         ELSE IF env.TSDB_DATABASE = "unset" THEN "KeyError"
         ELSE "influx"
    ELSE "noop"

create_tsdb_from_env(env) ==
    /\ tsdb.kind = "none"
    /\ tsdb.call = "none"
    /\ tsdb' = IF CreateKind(env) \in {"KeyError", "ValueError"}
               THEN [tsdb EXCEPT !.call = "create", !.result = CreateKind(env),
                                 !.env = env]
               ELSE [tsdb EXCEPT !.kind = CreateKind(env), !.call = "create",
                                 !.result = "return", !.env = env,
                                 !.port = IF CreateKind(env) = "influx"
                                          THEN PortOf(env).value ELSE 0]
    /\ http' = NoResponse
    /\ UNCHANGED <<phase, mqtt_loop, mqtt_state, ready, position_queue, ws_clients,
                   ws_state, broadcaster, mqtt_last, scheduled, sent, joined, dequeued,
                   snapshot>>

\* what self._client.write / self._client.query do: "ok", "error" (they raise)
\* or "hang" (they do not return); a closed client raises
Backends == {"ok", "error", "hang"}

\* How a method of InfluxTimeSeriesDB ends given what its client call does:
\* the methods have no try, so the client's exception is the method's
InfluxEnd(backend) ==
    IF tsdb.closed \/ backend = "error" THEN "raise"
    ELSE IF backend = "hang" THEN "hang"
    ELSE "return"

write_position(point, backend) ==
    /\ tsdb.kind \in {"noop", "influx"}
    /\ tsdb.writes < MaxStore
    /\ tsdb' =
         IF tsdb.kind = "noop"
         THEN [tsdb EXCEPT !.call = "write_position", !.result = "return", !.rows = <<>>,
                           !.writes = @ + 1, !.args = NoArgs]
         ELSE [tsdb EXCEPT !.call = "write_position", !.result = InfluxEnd(backend),
                           !.rows = <<>>, !.writes = @ + 1, !.args = NoArgs,
                           !.store = IF InfluxEnd(backend) = "return"
                                     THEN Append(@, point) ELSE @]
    /\ http' = NoResponse
    /\ UNCHANGED <<phase, mqtt_loop, mqtt_state, ready, position_queue, ws_clients,
                   ws_state, broadcaster, mqtt_last, scheduled, sent, joined, dequeued,
                   snapshot>>

\* a Noop sink whose queries answer with one empty bin
NoopRowsZeroBin == <<[grid_x |-> 0, grid_y |-> 0, count |-> 0]>>

\* NoopTimeSeriesDB: return []
NoopRows == <<>>

\* WHERE time >= now() - interval '{hours} hours'
InLastHours(row, hours) == row.timestamp >= Now - hours

query_positions(hours, backend) ==
    /\ tsdb.kind \in {"noop", "influx"}
    /\ tsdb' =
         IF tsdb.kind = "noop"
         THEN [tsdb EXCEPT !.call = "query_positions", !.result = "return",
                           !.rows = NoopRows, !.args = NoArgs]
         ELSE [tsdb EXCEPT !.call = "query_positions", !.result = InfluxEnd(backend),
                           !.args = NoArgs,
                           !.rows = IF InfluxEnd(backend) = "return"
                                    THEN LET keep(row) == InLastHours(row, hours)
                                         IN  SelectSeq(tsdb.store, keep)
                                    ELSE <<>>]
    /\ http' = NoResponse
    /\ UNCHANGED <<phase, mqtt_loop, mqtt_state, ready, position_queue, ws_clients,
                   ws_state, broadcaster, mqtt_last, scheduled, sent, joined, dequeued,
                   snapshot>>

\* a cast with no FLOOR: truncation toward zero
GridTrunc(v, cell_size) ==
    IF v >= 0 THEN v \div cell_size ELSE -((-v) \div cell_size)

\* CAST(FLOOR(v / cell_size) AS INT)
Grid(v, cell_size) == v \div cell_size

\* a WHERE clause that always uses hours
HeatmapWhereHours(row, hours, device_id, start_time, end_time) ==
    /\ InLastHours(row, hours)
    /\ device_id # NoDevice => row.device_id = device_id

\* the WHERE clause of query_heatmap; an empty device_id and a missing one
\* both give no device filter
HeatmapWhere(row, hours, device_id, start_time, end_time) ==
    /\ IF start_time # NoTime /\ end_time # NoTime
       THEN row.timestamp >= start_time /\ row.timestamp <= end_time
       ELSE InLastHours(row, hours)
    /\ device_id # NoDevice => row.device_id = device_id

\* GROUP BY grid_x, grid_y with COUNT(*): one bin per pair that occurs
HeatmapBins(rows, cell_size) ==
    LET cells == { <<Grid(rows[i].x, cell_size), Grid(rows[i].y, cell_size)>> :
                     i \in DOMAIN rows }
    IN  { [grid_x |-> c[1], grid_y |-> c[2],
           count |-> Cardinality({ i \in DOMAIN rows :
                        <<Grid(rows[i].x, cell_size), Grid(rows[i].y, cell_size)>> = c })] :
          c \in cells }

\* query_heatmap of the object tsdb: the ways the call ends, each with the
\* list it returns; the backend returns the groups in an order of its choosing
HeatmapOutcomes(hours, cell_size, device_id, start_time, end_time, backend) ==
    IF tsdb.kind = "noop" THEN { [result |-> "return", rows |-> NoopRows] }
    ELSE IF InfluxEnd(backend) # "return"
    THEN { [result |-> InfluxEnd(backend), rows |-> <<>>] }
    ELSE LET keep(row) == HeatmapWhere(row, hours, device_id, start_time, end_time)
             bins == HeatmapBins(SelectSeq(tsdb.store, keep), cell_size)
         IN  { [result |-> "return", rows |-> order] : order \in Orders(bins) }

HeatmapArgs(hours, cell_size, device_id, start_time, end_time) ==
    [hours |-> hours, cell_size |-> cell_size, device_id |-> device_id,
     start_time |-> start_time, end_time |-> end_time]

query_heatmap(hours, cell_size, device_id, start_time, end_time, backend) ==
    /\ tsdb.kind \in {"noop", "influx"}
    /\ \E o \in HeatmapOutcomes(hours, cell_size, device_id, start_time, end_time, backend) :
          tsdb' = [tsdb EXCEPT !.call = "query_heatmap", !.result = o.result,
                               !.rows = o.rows,
                               !.args = HeatmapArgs(hours, cell_size, device_id,
                                                    start_time, end_time)]
    /\ http' = NoResponse
    /\ UNCHANGED <<phase, mqtt_loop, mqtt_state, ready, position_queue, ws_clients,
                   ws_state, broadcaster, mqtt_last, scheduled, sent, joined, dequeued,
                   snapshot>>

\* TimeSeriesDB.aclose does nothing; InfluxTimeSeriesDB.aclose closes the client
aclose ==
    /\ tsdb.kind \in {"noop", "influx"}
    /\ ~tsdb.closed
    /\ tsdb' = [tsdb EXCEPT !.call = "aclose", !.result = "return", !.rows = <<>>,
                            !.args = NoArgs, !.closed = (tsdb.kind = "influx")]
    /\ http' = NoResponse
    /\ UNCHANGED <<phase, mqtt_loop, mqtt_state, ready, position_queue, ws_clients,
                   ws_state, broadcaster, mqtt_last, scheduled, sent, joined, dequeued,
                   snapshot>>

\* the defaults of query_heatmap and of the endpoint
DefaultHours == 24
DefaultCellSize == 5

\* an answer that reports the default cell size whatever was asked for
HeatmapBodyDefaultCell(bins, cell_size) == [bins |-> bins, cell_size |-> DefaultCellSize]

\* the JSON body {bins: [{grid_x, grid_y, count}, ...], cell_size}
HeatmapBody(bins, cell_size) == [bins |-> bins, cell_size |-> cell_size]

\* the exchange: the query parameters, the status and the body
HeatmapResponse(status, bins, cell_size, query) ==
    [status |-> status, bins |-> HeatmapBody(bins, cell_size).bins,
     cell_size |-> HeatmapBody(bins, cell_size).cell_size, query |-> query]

\* GET /api/heatmap?hours=&cell_size=&device_id=.  With no sink
\* (create_tsdb_from_env patched to return None) the answer is empty;
\* otherwise the bins of the sink's query_heatmap in the order returned.  An
\* exception of the sink is the framework's 500; a sink that hangs gives no
\* answer.
api_heatmap(hours, cell_size, device_id, backend) ==
    LET query == [hours |-> hours, cell_size |-> cell_size, device_id |-> device_id]
    IN  /\ tsdb.result \notin {"KeyError", "ValueError"}
        /\ ~tsdb.closed
        /\ IF tsdb.kind = "none"
           THEN /\ http' = HeatmapResponse(200, <<>>, cell_size, query)
                /\ tsdb' = tsdb
           ELSE \E o \in HeatmapOutcomes(hours, cell_size, device_id, NoTime, NoTime,
                                         backend) :
                  /\ tsdb' = [tsdb EXCEPT !.call = "query_heatmap", !.result = o.result,
                                          !.rows = o.rows,
                                          !.args = HeatmapArgs(hours, cell_size, device_id,
                                                               NoTime, NoTime)]
                  /\ http' = IF o.result = "return"
                             THEN HeatmapResponse(200, o.rows, cell_size, query)
                             ELSE IF o.result = "raise"
                             THEN [NoResponse EXCEPT !.status = 500, !.query = query]
                             ELSE [NoResponse EXCEPT !.query = query]
        /\ UNCHANGED <<phase, mqtt_loop, mqtt_state, ready, position_queue, ws_clients,
                       ws_state, broadcaster, mqtt_last, scheduled, sent, joined, dequeued,
                       snapshot>>

\* one environment for each way create_tsdb_from_env ends
SinkEnvs ==
    { env \in Envs : /\ env.TSDB_TYPE \in {"unset", "influx"}
                     /\ env.TSDB_HOST = "db"
                     /\ env.TSDB_PORT = "unset"
                     /\ env.TSDB_TYPE = "unset" => env.TSDB_DATABASE = "unset" }

NextSink ==
    \/ \E env \in SinkEnvs : create_tsdb_from_env(env)
    \/ \E point \in Points, backend \in Backends : write_position(point, backend)
    \/ \E hours \in {DefaultHours, 48}, backend \in Backends : query_positions(hours, backend)
    \/ \E hours \in {DefaultHours, 48}, cell_size \in {DefaultCellSize, 10},
          device_id \in {NoDevice, Cat1},
          start_time \in {NoTime, 0}, end_time \in {NoTime, 10}, backend \in Backends :
          query_heatmap(hours, cell_size, device_id, start_time, end_time, backend)
    \/ \E hours \in {DefaultHours, 48}, cell_size \in {DefaultCellSize, 10},
          device_id \in {NoDevice, Cat1}, backend \in Backends :
          api_heatmap(hours, cell_size, device_id, backend)
    \/ aclose

SpecSink == Init /\ [][NextSink]_vars

(***************************************************************************)
(* Startup of the sink alone: create_tsdb_from_env in every environment.   *)
(***************************************************************************)
NextCreate == \E env \in Envs : create_tsdb_from_env(env)

SpecCreate == Init /\ [][NextCreate]_vars

(***************************************************************************)
(* Properties                                                              *)
(***************************************************************************)
\* the records of the send_json calls made for ws, in order
SentData(ws) == [i \in DOMAIN sent[ws] |-> sent[ws][i].data]

AllOk(ws) == \A i \in DOMAIN sent[ws] : sent[ws][i].res = "ok"

IsPrefix(s, t) == Len(s) <= Len(t) /\ s = SubSeq(t, 1, Len(s))

\* ws was added before the loop took anything off the queue, is still in the
\* active set, and none of its sends failed
Steady(ws) == ws \in ws_clients /\ joined[ws] = 0 /\ AllOk(ws)

\* nothing scheduled, queued or in a pass is waiting to be delivered
Drained == ready = <<>> /\ position_queue = <<>> /\ broadcaster.pc = "get"

\* C1: FIFO delivery.  A viewer that was in the active set before the fan-out
\* loop consumed anything, is still in it and had every send succeed has
\* received the samples in exactly the order on_mqtt_message scheduled them:
\* what it received is a prefix of that order, lacking at most the sample of
\* the pass under way, equal to everything dequeued whenever the loop waits in
\* get(), and equal to all N scheduled samples once nothing is left to deliver.
C1_FifoDelivery ==
    \A ws \in Viewers :
        Steady(ws) =>
            /\ IsPrefix(SentData(ws), scheduled)
            /\ Len(SentData(ws)) >= Len(dequeued) - 1
            /\ broadcaster.pc = "get" => SentData(ws) = dequeued
            /\ Drained => SentData(ws) = scheduled

\* two samples of different devices, both queued before the loop took the
\* first, have reached a steady viewer
C1_Witness ==
    \E ws \in Viewers :
        /\ Steady(ws)
        /\ Drained
        /\ Len(scheduled) >= 2
        /\ scheduled[1].device_id # scheduled[2].device_id
        /\ SentData(ws) = scheduled

\* The segments of a topic, read off the positions of its separators
SlashPos(topic) == { i \in DOMAIN topic : topic[i] = Slash }

NumSegments(topic) == Cardinality(SlashPos(topic)) + 1

\* position of the n-th separator; 0 before the first segment, Len + 1 after the last
Sep(topic, n) ==
    IF n = 0 THEN 0
    ELSE IF n > Cardinality(SlashPos(topic)) THEN Len(topic) + 1
    ELSE CHOOSE i \in SlashPos(topic) :
             Cardinality({ j \in SlashPos(topic) : j <= i }) = n

\* the segment at index k, counted from 0; the topic has more than k segments
Segment(topic, k) == SubSeq(topic, Sep(topic, k) + 1, Sep(topic, k + 1) - 1)

IsObject(payload) == payload.form = "json" /\ payload.value.t = "dict"

\* the message names a registered device at index 2 of a topic of 4 segments or more
TopicOfDevice(topic) ==
    NumSegments(topic) >= 4 /\ Segment(topic, 2) \in DOMAIN device_by_id

\* the payload is an object in which x and y are present
HasXY(payload) ==
    IsObject(payload) /\ payload.value.x # Absent /\ payload.value.y # Absent

\* ... and neither is null
HasXYNotNull(payload) ==
    HasXY(payload) /\ payload.value.x.t # "null" /\ payload.value.y.t # "null"

\* the record the message stands for
RecordOf(topic, payload) ==
    [device_id |-> Segment(topic, 2),
     device_name |-> device_by_id[Segment(topic, 2)],
     x |-> payload.value.x,
     y |-> payload.value.y]

\* a step that is a call of on_mqtt_message
IsMessageStep == mqtt_last'.n = mqtt_last.n + 1

\* the call scheduled exactly one put, of this record
SchedulesOne(record) == ready' = Append(ready, record) /\ position_queue' = position_queue

\* the call scheduled nothing and left the queue alone
SchedulesNothing ==
    ready' = ready /\ position_queue' = position_queue /\ scheduled' = scheduled

\* the queue hands the loop the records in the order they were scheduled
QueueInOrder == dequeued \o position_queue \o ready = scheduled

\* every send_json to an active viewer carried, in order, the records dequeued
\* since it was added; it lacks at most the record of the pass under way
SentAllSinceJoined(ws) ==
    /\ SentData(ws) = SubSeq(dequeued, joined[ws] + 1, joined[ws] + Len(sent[ws]))
    /\ joined[ws] + Len(sent[ws]) >= Len(dequeued) - 1
    /\ broadcaster.pc = "get" => joined[ws] + Len(sent[ws]) = Len(dequeued)

\* C2 as stated: every message whose payload is an object with x and y present
\* (0 included), on a topic of at least 4 segments whose segment 2 is a
\* registered device, has exactly one record enqueued for it.
C2_AcceptanceAsStated ==
    [][ (IsMessageStep /\ TopicOfDevice(mqtt_last'.topic) /\ HasXY(mqtt_last'.payload))
          => SchedulesOne(RecordOf(mqtt_last'.topic, mqtt_last'.payload)) ]_vars

\* C2, amended: every message whose payload is an object with x and y present
\* and not null (0 included), on a topic of at least 4 segments whose segment 2
\* is a registered device, has exactly one record {device_id, device_name, x, y}
\* scheduled for the queue, the name being the registry's and x, y the
\* payload's; the queue keeps the order, and each record the loop dequeues is
\* sent to every viewer that is active then.
C2_Acceptance ==
    /\ [][ (IsMessageStep /\ TopicOfDevice(mqtt_last'.topic)
              /\ HasXYNotNull(mqtt_last'.payload))
             => SchedulesOne(RecordOf(mqtt_last'.topic, mqtt_last'.payload)) ]_vars
    /\ [](QueueInOrder /\ \A ws \in ws_clients : SentAllSinceJoined(ws))

\* cat1's record with x = 0, name Mittens, has reached two active viewers
C2_Witness ==
    \E v, w \in ws_clients :
        /\ v # w
        /\ \A ws \in {v, w} :
              \E i \in DOMAIN sent[ws] :
                  /\ sent[ws][i].res = "ok"
                  /\ sent[ws][i].data = [device_id |-> Cat1, device_name |-> "Mittens",
                                         x |-> Field("num", 0), y |-> Field("num", 2)]

NoFailure(ws) == \A i \in DOMAIN sent[ws] : sent[ws][i].res # "exc"

\* C3: a viewer whose delivery failed is out of the active set once the pass
\* has ended and no send is made to it after the failed one; a viewer none of
\* whose deliveries failed is removed only by its own disconnect, and every
\* active viewer has been sent each sample dequeued since it was added.
C3_FailedViewerRemoved ==
    /\ \A ws \in Viewers : \A i \in DOMAIN sent[ws] :
          sent[ws][i].res = "exc" => i = Len(sent[ws])
    /\ broadcaster.pc = "get" => \A ws \in ws_clients : NoFailure(ws)
    /\ \A ws \in Viewers : (ws_state[ws] = "open" /\ NoFailure(ws)) => ws \in ws_clients
    /\ \A ws \in ws_clients : SentAllSinceJoined(ws)

\* one viewer failed on the first sample and is gone, though still connected;
\* the other got the first sample and the one after it
C3_Witness ==
    \E v, w \in Viewers :
        /\ ws_state[v] = "open" /\ v \notin ws_clients
        /\ Len(sent[v]) = 1 /\ sent[v][1].res = "exc"
        /\ w \in ws_clients /\ AllOk(w) /\ Len(sent[w]) >= 2
        /\ broadcaster.pc = "get"

\* the devices with a sample processed by the loop, and the latest sample of each
CachedDevices == { dequeued[i].device_id : i \in DOMAIN dequeued }

LatestOf(device_id) ==
    LET idx == { i \in DOMAIN dequeued : dequeued[i].device_id = device_id }
    IN  dequeued[CHOOSE i \in idx : \A j \in idx : j <= i]

\* C4: when a viewer is inserted into the active set it has been sent exactly
\* one message per device with a processed sample, the latest sample of that
\* device.
C4_ReplayOnSubscribe ==
    [][ \A ws \in Viewers :
          (ws \notin ws_clients /\ ws \in ws_clients') =>
              /\ Len(sent'[ws]) = Cardinality(CachedDevices)
              /\ { sent'[ws][i].data : i \in DOMAIN sent'[ws] }
                   = { LatestOf(d) : d \in CachedDevices } ]_vars

\* the payload is not valid UTF-8 or not valid JSON
Malformed(payload) == payload.form \in {"badutf8", "badjson"}

\* the decoded payload has no member x (no member y)
LacksX(payload) == payload.form = "json" /\ (~IsObject(payload) \/ payload.value.x = Absent)

LacksY(payload) == payload.form = "json" /\ (~IsObject(payload) \/ payload.value.y = Absent)

\* C5: a message whose payload is malformed, or lacks x, or lacks y, or whose
\* topic has fewer than 4 segments, schedules nothing and leaves position_queue
\* as it was.
C5_DecoderRejects ==
    [][ (IsMessageStep
           /\ (\/ Malformed(mqtt_last'.payload)
               \/ LacksX(mqtt_last'.payload)
               \/ LacksY(mqtt_last'.payload)
               \/ NumSegments(mqtt_last'.topic) < 4))
          => SchedulesNothing ]_vars

\* with a sample already in the queue, a message with a good payload for a
\* registered device on a topic of 3 segments was turned down
C5_Witness ==
    /\ position_queue # <<>>
    /\ mqtt_last.end = "return"
    /\ HasXYNotNull(mqtt_last.payload)
    /\ NumSegments(mqtt_last.topic) = 3
    /\ Segment(mqtt_last.topic, 2) \in DOMAIN device_by_id
    /\ Len(scheduled) < mqtt_last.n

\* C6: a message whose topic segment at index 2 is not a registered device id
\* schedules nothing and leaves position_queue as it was, whatever its payload.
C6_UnknownDeviceRejected ==
    [][ (IsMessageStep
           /\ NumSegments(mqtt_last'.topic) >= 3
           /\ Segment(mqtt_last'.topic, 2) \notin DOMAIN device_by_id)
          => SchedulesNothing ]_vars

\* with a sample already in the queue, a message with a good payload on a
\* topic of 4 segments naming the unregistered dog9 was turned down
C6_Witness ==
    /\ position_queue # <<>>
    /\ mqtt_last.end = "return"
    /\ HasXYNotNull(mqtt_last.payload)
    /\ NumSegments(mqtt_last.topic) = 4
    /\ Segment(mqtt_last.topic, 2) = Dog9
    /\ Len(scheduled) < mqtt_last.n

\* C7: no call of on_mqtt_message ends in an exception, whatever the topic
\* and the payload.
C7_NoExceptionEscapes == mqtt_last.end # "raise"

\* C8: write_position has been called for every sample whose broadcast pass
\* is over.
C8_WritePerSample ==
    Len(dequeued) - (IF broadcaster.pc = "send" THEN 1 ELSE 0) <= tsdb.writes

\* the part of C9 about the task and the bus client: the bus client is stopped
\* only after the fan-out task is done, and no send is made once it is done
LoopStopsBeforeBus ==
    /\ [](mqtt_state = "stopped" => broadcaster.pc = "done")
    /\ [][broadcaster.pc = "done" => sent' = sent]_vars

\* C9: the bus client is stopped only after the fan-out task is done, no send
\* is made once the task is done, and when lifespan has finished the sink has
\* been closed.
C9_ShutdownOrdering ==
    /\ LoopStopsBeforeBus
    /\ [](phase = "done" => tsdb.call = "aclose")

\* C10: a query of the Influx sink does not end in an exception.
C10_QueryFailureIsolated ==
    (tsdb.kind = "influx" /\ tsdb.call \in {"query_heatmap", "query_positions"})
        => tsdb.result # "raise"

\* the sink is the Noop variant, or there is none
NoBackend == tsdb.kind \in {"none", "noop"}

Recognised(env) == env.TSDB_TYPE \in {"influx", "INFLUX", "Influx"}

\* a required parameter of the Backed variant is missing
RequiredMissing(env) == env.TSDB_HOST = "unset" \/ env.TSDB_DATABASE = "unset"

\* the port is set to something that is no integer
PortNotInteger(env) == env.TSDB_PORT = "abc"

Created == tsdb.call = "create"

\* what C12 and its amended form share: Noop, without raising, for every
\* selector but the recognised type; the Backed variant only for the
\* recognised type; port 8181 when the port is unset, the port given otherwise
SelectsByType ==
    Created =>
        /\ ~Recognised(tsdb.env) => (tsdb.kind = "noop" /\ tsdb.result = "return")
        /\ Recognised(tsdb.env) => tsdb.kind \in {"influx", "none"}
        /\ (Recognised(tsdb.env) /\ tsdb.result = "return") =>
              /\ tsdb.kind = "influx"
              /\ tsdb.env.TSDB_PORT = "unset" => tsdb.port = 8181
              /\ tsdb.env.TSDB_PORT = "9000" => tsdb.port = 9000
        /\ tsdb.result # "return" => tsdb.kind = "none"

\* C12 as stated: create_tsdb_from_env returns Noop without raising unless the
\* selector is the recognised type (in any case); for the recognised type it
\* returns the Backed variant, raising only when host or database is missing,
\* and uses port 8181 when the port is unset.
C12_SelectionAsStated ==
    /\ SelectsByType
    /\ (Created /\ Recognised(tsdb.env)) =>
          (tsdb.result # "return" <=> RequiredMissing(tsdb.env))

\* C12, amended: as stated, but for the recognised type it raises when host or
\* database is missing and also when the port is set to a value that is not
\* an integer, and in no other case.
C12_Selection ==
    /\ SelectsByType
    /\ (Created /\ Recognised(tsdb.env)) =>
          (tsdb.result # "return" <=>
              (RequiredMissing(tsdb.env) \/ PortNotInteger(tsdb.env)))

\* TSDB_TYPE=INFLUX with host and database set and no port gave the Backed
\* variant on port 8181
C12_Witness ==
    /\ Created
    /\ tsdb.env.TSDB_TYPE = "INFLUX"
    /\ tsdb.env.TSDB_PORT = "unset"
    /\ tsdb.kind = "influx"
    /\ tsdb.port = 8181

\* the last call was query_heatmap of the Backed sink, and it returned
HeatmapReturned ==
    tsdb.kind = "influx" /\ tsdb.call = "query_heatmap" /\ tsdb.result = "return"

\* floor(v / c) for c > 0, toward negative infinity: the k with k*c <= v < (k+1)*c
FloorDiv(v, c) == CHOOSE k \in -100..100 : k * c <= v /\ v < (k + 1) * c

\* the stored samples the query's filter lets through
Window ==
    { i \in DOMAIN tsdb.store :
        HeatmapWhere(tsdb.store[i], tsdb.args.hours, tsdb.args.device_id,
                     tsdb.args.start_time, tsdb.args.end_time) }

\* sample i of the store belongs in this bin
InBin(i, bin) ==
    /\ FloorDiv(tsdb.store[i].x, tsdb.args.cell_size) = bin.grid_x
    /\ FloorDiv(tsdb.store[i].y, tsdb.args.cell_size) = bin.grid_y

RECURSIVE SumCounts(_)
SumCounts(bins) ==
    IF bins = <<>> THEN 0 ELSE Head(bins).count + SumCounts(Tail(bins))

\* C13: heatmap bucketing.  Each sample of the filtered window is counted in
\* exactly one returned bin, the bin (floor(x / cell_size), floor(y /
\* cell_size)) with floor toward negative infinity; no two returned bins have
\* the same (grid_x, grid_y), none has count 0, each count is the number of
\* samples of the window in that bin, and the counts sum to the size of the
\* window.
C13_Bucketing ==
    HeatmapReturned =>
        /\ \A i \in Window :
              Cardinality({ k \in DOMAIN tsdb.rows : InBin(i, tsdb.rows[k]) }) = 1
        /\ \A k \in DOMAIN tsdb.rows :
              /\ tsdb.rows[k].count > 0
              /\ tsdb.rows[k].count = Cardinality({ i \in Window : InBin(i, tsdb.rows[k]) })
        /\ \A k, l \in DOMAIN tsdb.rows :
              k # l => <<tsdb.rows[k].grid_x, tsdb.rows[k].grid_y>>
                         # <<tsdb.rows[l].grid_x, tsdb.rows[l].grid_y>>
        /\ SumCounts(tsdb.rows) = Cardinality(Window)

\* with cell_size 0.5 the sample (2.6, 3.1) is in bin (5, 6) and the sample
\* (-0.3, 3.1) in bin (-1, 6)
C13_Witness ==
    /\ HeatmapReturned
    /\ tsdb.args.cell_size = 5
    /\ \E i, j \in Window :
          /\ tsdb.store[i].x = 26 /\ tsdb.store[i].y = 31
          /\ tsdb.store[j].x = -3 /\ tsdb.store[j].y = 31
    /\ Range(tsdb.rows) = { [grid_x |-> 5, grid_y |-> 6, count |-> 1],
                            [grid_x |-> -1, grid_y |-> 6, count |-> 1] }

\* the explicit pair was given in full
PairGiven == tsdb.args.start_time # NoTime /\ tsdb.args.end_time # NoTime

\* the window the claim gives the query, and its device restriction
InClaimedWindow(row) ==
    /\ PairGiven =>
          tsdb.args.start_time <= row.timestamp /\ row.timestamp <= tsdb.args.end_time
    /\ ~PairGiven => row.timestamp >= Now - tsdb.args.hours
    /\ tsdb.args.device_id # NoDevice => row.device_id = tsdb.args.device_id

\* C14: heatmap time window.  The bins returned are those of exactly the
\* stored samples with start_time <= time <= end_time when both are given,
\* whatever hours is, and of the samples of the last `hours` hours when
\* neither or only one is given; with a device_id, only that device's samples.
C14_TimeWindow ==
    HeatmapReturned =>
        /\ Range(tsdb.rows) =
              HeatmapBins(SelectSeq(tsdb.store, InClaimedWindow), tsdb.args.cell_size)
        /\ SumCounts(tsdb.rows) = Len(SelectSeq(tsdb.store, InClaimedWindow))

\* with hours = 24 and the pair (0, 10), of a sample 28 hours old and one 10
\* hours old only the older one, outside the last 24 hours, was counted
C14_Witness ==
    /\ HeatmapReturned
    /\ PairGiven
    /\ tsdb.args.hours = 24
    /\ \E i, j \in DOMAIN tsdb.store :
          tsdb.store[i].timestamp = 2 /\ tsdb.store[j].timestamp = 20
    /\ SumCounts(tsdb.rows) = 1
    /\ tsdb.rows[1].grid_x = FloorDiv(-3, tsdb.args.cell_size)

\* the endpoint answered a request with status 200 and a sink was configured
EndpointAnswered == http.status = 200 /\ tsdb.kind # "none"

C16_CacheHoldsLatest ==
    /\ DOMAIN LastPositionCache = CachedDevices
    /\ \A d \in CachedDevices : LastPositionCache[d] = LatestOf(d)

\* ws has had its send of the pass under way
Attempted(ws) ==
    /\ joined[ws] < Len(dequeued)
    /\ joined[ws] + Len(sent[ws]) = Len(dequeued)
    /\ sent[ws][Len(sent[ws])].data = broadcaster.data

\* this step ends a pass otherwise than by cancellation
PassEnds ==
    /\ broadcaster.pc = "send"
    /\ broadcaster'.pc # "done"
    /\ broadcaster'.pc = "get" \/ Len(dequeued') > Len(dequeued)

\* this step is a send that raised
SendFails ==
    \E ws \in Viewers :
        /\ Len(sent'[ws]) = Len(sent[ws]) + 1
        /\ sent'[ws][Len(sent'[ws])].res = "exc"

\* C17: per-pass failure isolation.  During a pass every viewer of the
\* snapshot either is still to be attempted, once, or has been attempted,
\* however many attempts failed; a pass ends only when every viewer of its
\* snapshot has been attempted; a failed send leaves the websockets after it
\* to be attempted and leaves the loop running.
C17_FailureIsolation ==
    /\ [](broadcaster.pc = "send" =>
            /\ Range(broadcaster.todo) \subseteq snapshot
            /\ Len(broadcaster.todo) = Cardinality(Range(broadcaster.todo))
            /\ \A ws \in snapshot \ Range(broadcaster.todo) : Attempted(ws))
    /\ [](phase = "running" => broadcaster.pc \in {"get", "send"})
    /\ [][ PassEnds =>
             \A ws \in snapshot :
                 /\ joined[ws] + Len(sent'[ws]) = Len(dequeued)
                 /\ sent'[ws][Len(sent'[ws])].data = broadcaster.data ]_vars
    /\ [][ SendFails =>
             /\ broadcaster'.pc \in {"get", "send"}
             /\ Len(broadcaster.todo) > 1 =>
                   /\ broadcaster'.todo = Tail(broadcaster.todo)
                   /\ broadcaster'.data = broadcaster.data ]_vars

\* in one pass the first viewer's send failed and the second viewer was sent
\* the same sample all the same
C17_Witness ==
    \E v, w \in Viewers :
        /\ v # w
        /\ Len(sent[v]) = 1 /\ sent[v][1].res = "exc"
        /\ Len(sent[w]) = 1 /\ sent[w][1].res = "ok"
        /\ sent[w][1].data = sent[v][1].data
        /\ joined[v] = 0 /\ joined[w] = 0
        /\ Len(dequeued) = 1
        /\ broadcaster.pc = "get"
        /\ v \notin ws_clients /\ w \in ws_clients

\* one of the sends to ws raised
Failed(ws) == \E i \in DOMAIN sent[ws] : sent[ws][i].res = "exc"

\* C18: viewer lifecycle.  A handle enters the active set only in the step
\* that accepts its connection, hence at most once and never after it was
\* removed; a handle leaves the set only by its own disconnect or at the end of
\* a pass in which its delivery failed, so no other viewer's membership
\* changes; and whichever of the two triggers comes first, or both, the
\* viewer is absent: a disconnected viewer is never in the set, nor is a
\* failed one once its pass has ended.
C18_ViewerLifecycle ==
    /\ [][ \A ws \in Viewers :
              /\ (ws \notin ws_clients /\ ws \in ws_clients') =>
                    (ws_state[ws] = "new" /\ ws_state'[ws] = "open")
              /\ ws_state[ws] # "new" => ws_state'[ws] # "new"
              /\ ws_state[ws] = "closed" => ws_state'[ws] = "closed"
              /\ (ws \in ws_clients /\ ws \notin ws_clients') =>
                    \/ ws_state[ws] = "open" /\ ws_state'[ws] = "closed"
                    \/ PassEnds /\ Failed(ws)' ]_vars
    /\ [](\A ws \in Viewers :
            /\ ws \in ws_clients => ws_state[ws] = "open"
            /\ ws_state[ws] = "closed" => ws \notin ws_clients
            /\ (Failed(ws) /\ broadcaster.pc = "get") => ws \notin ws_clients)

\* both triggers have fired for one viewer, which is absent, while another
\* viewer is still in the set
C18_Witness ==
    \E v, w \in Viewers :
        /\ ws_state[v] = "closed" /\ Failed(v)
        /\ v \notin ws_clients
        /\ broadcaster.pc = "get"
        /\ w \in ws_clients

\* this step begins a pass
PassBegins == Len(dequeued') > Len(dequeued) /\ broadcaster'.pc = "send"

\* what was sent to ws is, in order and once each, the samples dequeued from
\* the one after it was added on
SentFromJoined(ws) ==
    /\ joined[ws] + Len(sent[ws]) <= Len(dequeued)
    /\ SentData(ws) = SubSeq(dequeued, joined[ws] + 1, joined[ws] + Len(sent[ws]))

\* C19: snapshot iteration.  The viewers of a pass are exactly the members
\* of the active set when the pass begins, each once; a step that is not a
\* send of the pass, a subscribe or a disconnect among them, leaves the
\* viewers still to attempt as they were, and a send removes the one attempted
\* only; a viewer that subscribes during the pass is not sent its sample but
\* is sent, once each, the later ones; the loop never stops on an error.
C19_SnapshotIteration ==
    /\ [][ PassBegins =>
             /\ Range(broadcaster'.todo) = ws_clients'
             /\ Len(broadcaster'.todo) = Cardinality(ws_clients') ]_vars
    /\ [][ (broadcaster.pc = "send" /\ broadcaster'.pc = "send"
               /\ Len(dequeued') = Len(dequeued)) =>
             \/ sent' = sent /\ broadcaster'.todo = broadcaster.todo
             \/ /\ broadcaster'.todo = Tail(broadcaster.todo)
                /\ Len(sent'[Head(broadcaster.todo)])
                      = Len(sent[Head(broadcaster.todo)]) + 1 ]_vars
    /\ [](\A ws \in Viewers : SentFromJoined(ws))
    /\ [](\A ws \in ws_clients : SentAllSinceJoined(ws))
    /\ [](broadcaster.pc = "send" =>
            \A ws \in ws_clients \ snapshot :
                joined[ws] = Len(dequeued) /\ sent[ws] = <<>>)
    /\ [](phase = "running" => broadcaster.pc # "done")

\* the pass of the second sample is suspended in the send to a viewer that
\* was sent the first; another viewer subscribed during this pass: it is in
\* the set, not in the snapshot, and has been sent nothing
C19_Witness ==
    \E v \in snapshot, w \in ws_clients \ snapshot :
        /\ broadcaster.pc = "send"
        /\ Len(dequeued) = 2
        /\ dequeued[1] # dequeued[2]
        /\ broadcaster.todo = <<v>>
        /\ SentData(v) = <<dequeued[1]>>
        /\ joined[w] = 2 /\ sent[w] = <<>>

\* C20: thread confinement.  A call of on_mqtt_message leaves
\* position_queue, the viewer set and the fan-out task as they are; all it
\* does to the event loop is add at most one callback at the end of its ready
\* list; and it can be called, and returns, however much is queued.
C20_ThreadConfinement ==
    /\ [][ IsMessageStep =>
             /\ position_queue' = position_queue
             /\ ws_clients' = ws_clients
             /\ ws_state' = ws_state
             /\ broadcaster' = broadcaster
             /\ dequeued' = dequeued
             /\ sent' = sent
             /\ \/ ready' = ready
                \/ /\ Len(ready') = Len(ready) + 1
                   /\ SubSeq(ready', 1, Len(ready)) = ready ]_vars
    /\ []((mqtt_state = "started" /\ mqtt_last.n < MaxMsgs) =>
            ENABLED (\E m \in BusMsgs : on_mqtt_message(m[1], m[2])))
    /\ [](mqtt_last.end \in {"none", "return", "raise"})

\* a message was handed over while an earlier sample sat in the queue and a
\* viewer was in the set
C20_Witness ==
    /\ mqtt_last.n = 2
    /\ ready # <<>>
    /\ position_queue # <<>>
    /\ ws_clients # {}
    /\ Len(scheduled) = 2

\* everything put on position_queue so far, in the order it was put
Enqueued == dequeued \o position_queue

\* the sends to ws that returned, and the samples they carried, in order
OkSends(ws) == { i \in DOMAIN sent[ws] : sent[ws][i].res = "ok" }

Delivered(ws) ==
    LET ok(s) == s.res = "ok"
        oks   == SelectSeq(sent[ws], ok)
    IN  [i \in DOMAIN oks |-> oks[i].data]

\* C21: for every viewer, what was successfully delivered to it is a
\* contiguous run of the enqueue sequence.  The i-th send to a viewer carries
\* the sample at position joined + i, so no sample goes to it twice; the sends
\* that succeeded are an unbroken run of its sends, so none is skipped between
\* the first and the last delivery; and the samples delivered are those at
\* positions joined + 1 .. joined + n of what was enqueued.
C21_ContiguousDelivery ==
    \A ws \in Viewers :
        /\ SentFromJoined(ws)
        /\ \A i \in OkSends(ws) : \A j \in 1..i : j \in OkSends(ws)
        /\ joined[ws] + Len(Delivered(ws)) <= Len(Enqueued)
        /\ Delivered(ws) =
              SubSeq(Enqueued, joined[ws] + 1, joined[ws] + Len(Delivered(ws)))

\* one viewer was delivered the first sample and failed on the second; another
\* subscribed after the first sample and was delivered the second only
C21_Witness ==
    \E v, w \in Viewers :
        /\ Len(dequeued) = 2 /\ dequeued[1] # dequeued[2]
        /\ joined[v] = 0
        /\ Len(sent[v]) = 2 /\ sent[v][1].res = "ok" /\ sent[v][2].res = "exc"
        /\ Delivered(v) = <<dequeued[1]>>
        /\ joined[w] = 1
        /\ Delivered(w) = <<dequeued[2]>>

\* sample number i of the enqueue order has had its send to ws
AttemptedSample(ws, i) == joined[ws] < i /\ joined[ws] + Len(sent[ws]) >= i

\* while a send is pending, the only send that is recorded is the pending
\* one, and nothing is dequeued but in the step that ends it
PendingSendBlocks ==
    [][ broadcaster.pc = "send" =>
          /\ \A ws \in Viewers :
                sent'[ws] # sent[ws] => ws = Head(broadcaster.todo)
          /\ dequeued' # dequeued =>
                sent'[Head(broadcaster.todo)] # sent[Head(broadcaster.todo)] ]_vars

\* C22: liveness of the fan-out.  With the loop scheduled fairly, every send
\* returning or raising and no shutdown, every sample put on position_queue is
\* eventually dequeued, and every viewer in the active set when it is dequeued
\* eventually has its send of that sample.  Conversely, while a send is
\* pending nothing else is sent and nothing is dequeued, so a send that never
\* returns holds up every later delivery to every viewer.
C22_FanoutLiveness ==
    /\ \A i \in 1..MaxMsgs :
          (Len(Enqueued) >= i) ~> (Len(dequeued) >= i)
    /\ \A i \in 1..MaxMsgs : \A ws \in Viewers :
          (Len(dequeued) = i /\ broadcaster.pc = "send" /\ ws \in snapshot)
              ~> AttemptedSample(ws, i)
    /\ PendingSendBlocks

\* two samples have been dequeued, and the second has had its send to every
\* viewer, all of them in the active set since before the first
C22_Witness ==
    /\ phase = "running"
    /\ Len(dequeued) = 2
    /\ broadcaster.pc = "get"
    /\ \A ws \in Viewers : joined[ws] = 0 /\ AttemptedSample(ws, 2)

====
